---- MODULE Spec2Model ----
(***************************************************************************)
(* The update cycle of the NEA Singapore Weather integration               *)
(* (custom_components/nea_sg_weather): the coordinator, the snapshot       *)
(* container NeaData, the scraping adapter Weather and the dataset         *)
(* objects of nea.py.                                                      *)
(*                                                                         *)
(* Objects are modelled by reference: heap maps an object id to the        *)
(* NeaData object allocated in that cycle, data is NeaWeatherData.data and *)
(* published is the coordinator's data attribute read by the entities.     *)
(***************************************************************************)
EXTENDS Integers, Sequences, FiniteSets, TLC

VARIABLES
    config,      \* config_entry.data: which entities are enabled
    pc,          \* position of the coordinator: idle / constructing / fetching
    cycle,       \* number of update cycles started so far
    getIdx,      \* WeatherData.__init__: index of the next GET_ENDPOINTS entry
    netCalls,    \* network requests issued by the adapter in the current cycle
    primary,     \* what api.data.gov.sg would answer in the current cycle
    primaryReq,  \* datasets whose primary endpoint was requested this cycle
    heap,        \* id -> NeaData object (live objects only)
    data,        \* NeaWeatherData.data: id of the object being built, 0 = unset
    published,   \* coordinator.data: id of the snapshot entities read, 0 = None
    returned,    \* ids of the snapshots async_update has returned
    fetched,     \* dataset -> number of async_init calls in the current cycle
    outcome,     \* result of _async_update_data: running / ok / UpdateFailed
    cause,       \* exception that ended the cycle, "none" if there is none
    dataset,     \* the dataset object under study: which class of nea.py it is
    resp,        \* its self._resp: the document fetch_data read from the adapter
    today,       \* the current date in UTC+8 when process_data runs
    obj,         \* the attributes of the dataset object
    raised,      \* exception process_data (or async_init) ended with, "none" if none
    calls,       \* number of async_init calls made on the object
    camera,      \* the camera entity under study: "still" or "animated"
    clock,       \* the clock (UTC+8), in minutes since 00:00 of day 1
    cam,         \* the attributes of the camera entity
    walk         \* the async_camera_image call in progress, or the last one

\* The variables of the update cycle.
cycleVars == <<config, pc, cycle, getIdx, netCalls, primary, primaryReq, heap, data,
               published, returned, fetched, outcome, cause>>

\* The variables of the single dataset object.
extractVars == <<dataset, resp, today, obj, raised, calls>>

\* The variables of the rain map camera.
cameraVars == <<camera, clock, cam, walk>>

vars == <<cycleVars, extractVars, cameraVars>>

\* No dataset object is under study: the value of extractVars in the update cycle.
ExtractUnused ==
    /\ dataset = "none"
    /\ resp = <<>>
    /\ today = 0
    /\ obj = <<>>
    /\ raised = "none"
    /\ calls = 0

\* No camera is under study: the value of cameraVars elsewhere.
CameraUnused ==
    /\ camera = "none"
    /\ clock = 0
    /\ cam = <<>>
    /\ walk = <<>>

\* Number of update cycles the model runs.
MaxCycles == 2

\* The seven dataset attributes of NeaData.
Datasets == {"forecast2hr", "forecast24hr", "forecast4day", "temperature",
             "humidity", "wind", "rain"}

\* Keys of GET_ENDPOINTS in insertion order, the order WeatherData.__init__ requests them.
GET_ENDPOINTS == <<"4day", "24hr", "current", "temperature", "humidity", "wind", "rainfall">>

\* Requests WeatherData.__init__ makes for endpoint k: rainfall is a GET and a POST.
RequestsFor(k) == IF k = "rainfall" THEN 2 ELSE 1

\* Outcomes of one endpoint of the adapter: requests raises, or the scrape of the body raises.
GetOutcomes == {"ok", "ConnectionError", "ParseError"}

\* Answers of the primary API: a usable body, a body below the minimum length, an error.
PrimaryAnswers == {"usable", "short", "error"}

\* Datasets whose process_data can raise on a simulated document with no usable entries,
\* and the exception each raises after its timestamp has been assigned.
DegenerateError(d) ==
    CASE d = "forecast2hr"  -> "ValueError"
      [] d = "forecast24hr" -> "IndexError"
      [] d = "temperature"  -> "ZeroDivisionError"
      [] d = "humidity"     -> "ZeroDivisionError"
      [] d = "wind"         -> "ZeroDivisionError"
      [] OTHER              -> "none"

\* Forecast4day keeps no timestamp attribute; every other dataset does.
HasTimestamp(d) == d # "forecast4day"

Configs == [weather : BOOLEAN, areas : BOOLEAN, region : BOOLEAN, rain : BOOLEAN]

\* _data_objects of async_update: the datasets whose async_init is awaited.
DataObjects(c) ==
    IF c.weather
    THEN Datasets
    ELSE (IF c.areas THEN {"forecast2hr"} ELSE {}) \cup
         (IF c.region THEN {"forecast24hr"} ELSE {})

\* A dataset object as its constructor leaves it: timestamp "" and empty payload.
\* ts and payload hold the id of the adapter whose document set them, 0 = initial.
InitialDataset(w) == [ts |-> 0, payload |-> 0, source |-> "none", weather |-> w]

\* Mutant: one module-level Weather instance created once and kept across cycles.
NewWeather_Shared(c) == 1

\* The Weather instance NeaData.__init__ creates: a new one in every cycle.
NewWeather(c) == c

\* NeaData.__init__: one Weather, handed to each of the seven dataset objects.
NewNeaData(c) ==
    [query_time |-> c,
     weather    |-> NewWeather(c),
     ds         |-> [d \in Datasets |-> InitialDataset(NewWeather(c))]]

\* Mutant: process_data returning after the timestamp assignment.
Processed_TimestampOnly(d, o) ==
    [o EXCEPT !.ts = IF HasTimestamp(d) THEN o.weather ELSE 0,
              !.source = "secondary"]

\* process_data on a usable document: timestamp, then payload, from self._resp.
Processed(d, o) ==
    [o EXCEPT !.ts = IF HasTimestamp(d) THEN o.weather ELSE 0,
              !.payload = o.weather,
              !.source = "secondary"]

\* process_data raising after the timestamp assignment: the payload stays as it was.
HalfProcessed(d, o) ==
    [o EXCEPT !.ts = IF HasTimestamp(d) THEN o.weather ELSE 0,
              !.source = "secondary"]

\* Mutant: async_update refilling the object self.data already refers to.
AllocId_Reuse(c, cur) == IF cur # 0 THEN cur ELSE c

\* The object async_update builds in cycle c: self.NeaData() allocates a new one,
\* whatever self.data (cur) referred to before.
AllocId(c, cur) == c

\* Mutant: the object under construction stored as the coordinator's data on failure.
UpdateFailedResult_Current(prev, cur) == cur

\* What the coordinator's data attribute is after _async_update_data raised:
\* the previous value prev; the object cur being built is not stored.
UpdateFailedResult(prev, cur) == prev

\* Mutant: an except clause that lets the deadline's TimeoutError through.
CoordinatorOutcome_Narrow(err) == IF err = "TimeoutError" THEN err ELSE "UpdateFailed"

\* Mutant: an except clause for the exceptions of requests only.
CoordinatorOutcome_RequestsOnly(err) ==
    IF err \in {"ConnectionError", "TimeoutError"} THEN "UpdateFailed" ELSE err

\* except Exception as err: every exception leaves _async_update_data as UpdateFailed.
CoordinatorOutcome(err) == "UpdateFailed"

Init ==
    /\ config \in Configs
    /\ pc = "idle"
    /\ cycle = 0
    /\ getIdx = 1
    /\ netCalls = 0
    /\ primary = "usable"
    /\ primaryReq = {}
    /\ heap = <<>>
    /\ data = 0
    /\ published = 0
    /\ returned = {}
    /\ fetched = [d \in Datasets |-> 0]
    /\ outcome = "none"
    /\ cause = "none"
    /\ ExtractUnused
    /\ CameraUnused

\* except Exception as err: raise UpdateFailed(...) from err
Fail(c) ==
    /\ pc' = "idle"
    /\ outcome' = CoordinatorOutcome(c)
    /\ cause' = c
    /\ published' = UpdateFailedResult(published, data)

\* The timer fires: _async_update_data starts async_update, which hands
\* NeaData() to the executor.
Tick ==
    /\ UNCHANGED <<extractVars, cameraVars>>
    /\ pc = "idle"
    /\ cycle < MaxCycles
    /\ cycle' = cycle + 1
    /\ pc' = "constructing"
    /\ getIdx' = 1
    /\ netCalls' = 0
    /\ primary' \in PrimaryAnswers
    /\ primaryReq' = {}
    /\ fetched' = [d \in Datasets |-> 0]
    /\ outcome' = "running"
    /\ cause' = "none"
    /\ UNCHANGED <<config, heap, data, published, returned>>

\* One iteration of the loop of WeatherData.__init__.
AdapterGet ==
    /\ UNCHANGED <<extractVars, cameraVars>>
    /\ pc = "constructing"
    /\ getIdx <= Len(GET_ENDPOINTS)
    /\ netCalls' = netCalls + RequestsFor(GET_ENDPOINTS[getIdx])
    /\ \E r \in GetOutcomes :
          IF r = "ok"
          THEN /\ getIdx' = getIdx + 1
               /\ UNCHANGED <<pc, outcome, cause, published>>
          ELSE /\ Fail(r)
               /\ UNCHANGED getIdx
    /\ UNCHANGED <<config, cycle, primary, primaryReq, heap, data, returned, fetched>>

\* The rest of Weather.__init__ (Stations, Current, Area, Region, Week, API) and of
\* NeaData.__init__; on success async_update assigns the new object to self.data.
AdapterBuild ==
    /\ UNCHANGED <<extractVars, cameraVars>>
    /\ pc = "constructing"
    /\ getIdx = Len(GET_ENDPOINTS) + 1
    /\ \E r \in {"ok", "KeyError"} :
          IF r = "ok"
          THEN /\ heap' = [i \in ((DOMAIN heap \cap returned) \cup {AllocId(cycle, data)}) |->
                              IF i = AllocId(cycle, data) THEN NewNeaData(cycle) ELSE heap[i]]
               /\ data' = AllocId(cycle, data)
               /\ pc' = "fetching"
               /\ UNCHANGED <<outcome, cause, published>>
          ELSE /\ Fail(r)
               /\ UNCHANGED <<heap, data>>
    /\ UNCHANGED <<config, cycle, getIdx, netCalls, primary, primaryReq, returned, fetched>>

\* Mutant: the deadline caught inside async_update, which then returns what it has.
Deadline_Assembles ==
    /\ UNCHANGED <<extractVars, cameraVars>>
    /\ pc = "constructing"
    /\ heap' = [i \in ((DOMAIN heap \cap returned) \cup {cycle}) |->
                   IF i = cycle THEN NewNeaData(cycle) ELSE heap[i]]
    /\ data' = cycle
    /\ published' = cycle
    /\ returned' = returned \cup {cycle}
    /\ outcome' = "ok"
    /\ cause' = "TimeoutError"
    /\ pc' = "idle"
    /\ UNCHANGED <<config, cycle, getIdx, netCalls, primary, primaryReq, fetched>>

\* async with timeout(self.timeout): the deadline cancels the task at the await of
\* the executor job, the only point where async_update is suspended.
Deadline ==
    /\ UNCHANGED <<extractVars, cameraVars>>
    /\ pc = "constructing"
    /\ Fail("TimeoutError")
    /\ UNCHANGED <<config, cycle, getIdx, netCalls, primary, primaryReq, heap, data,
                   returned, fetched>>

\* One iteration of `for data_object in _data_objects`: async_init, i.e.
\* fetch_data reading the adapter's simulated document and process_data.
\* The iteration order of the set is not fixed.
ProcessDataset(d) ==
    /\ UNCHANGED <<extractVars, cameraVars>>
    /\ pc = "fetching"
    /\ d \in DataObjects(config)
    /\ fetched[d] = 0
    /\ fetched' = [fetched EXCEPT ![d] = @ + 1]
    /\ \E ok \in BOOLEAN :
          IF ok \/ DegenerateError(d) = "none"
          THEN /\ heap' = [heap EXCEPT ![data].ds[d] = Processed(d, @)]
               /\ UNCHANGED <<pc, outcome, cause, published>>
          ELSE /\ heap' = [heap EXCEPT ![data].ds[d] = HalfProcessed(d, @)]
               /\ Fail(DegenerateError(d))
    /\ UNCHANGED <<config, cycle, getIdx, netCalls, primary, primaryReq, data, returned>>

\* return self.data: the coordinator stores the returned object as its data.
Return ==
    /\ UNCHANGED <<extractVars, cameraVars>>
    /\ pc = "fetching"
    /\ \A d \in DataObjects(config) : fetched[d] = 1
    /\ published' = data
    /\ returned' = returned \cup {data}
    /\ outcome' = "ok"
    /\ pc' = "idle"
    /\ UNCHANGED <<config, cycle, getIdx, netCalls, primary, primaryReq, heap, data,
                   fetched, cause>>

Next ==
    \/ Tick
    \/ AdapterGet
    \/ AdapterBuild
    \/ Deadline
    \/ \E d \in Datasets : ProcessDataset(d)
    \/ Return

Spec == Init /\ [][Next]_vars

(***************************************************************************)
(* Vocabulary of the properties                                            *)
(***************************************************************************)

\* A dataset object nobody has processed: absent from the snapshot's data.
Absent(o) == o.ts = 0 /\ o.payload = 0 /\ o.source = "none"

\* A dataset object whose timestamp and payload were set from one document of one source.
FullyPopulated(d, o) ==
    /\ o.payload # 0
    /\ o.source \in {"primary", "secondary"}
    /\ HasTimestamp(d) => o.ts = o.payload

\* A snapshot built to the end: every awaited dataset populated, every other one untouched.
Complete(s) ==
    \A d \in Datasets :
        IF d \in DataObjects(config) THEN FullyPopulated(d, s.ds[d]) ELSE Absent(s.ds[d])

\* The most recent cycle that returned a snapshot, 0 if none did.
LastReturned == IF returned = {} THEN 0 ELSE CHOOSE i \in returned : \A j \in returned : j <= i

\* The exceptions process_data raises, i.e. the failures of one dataset.
DatasetErrors == {DegenerateError(d) : d \in Datasets} \ {"none"}

\* The datasets of the object being built whose processing ran to the end.
Succeeded == IF data \in DOMAIN heap
             THEN {d \in Datasets : FullyPopulated(d, heap[data].ds[d])}
             ELSE {}

\* C1: after any sequence of cycles the coordinator's data is the snapshot returned by
\* the most recent successful cycle (None only while no cycle has succeeded), that
\* snapshot is complete, and a cycle that ends on an exception ends as UpdateFailed.
C1_LastKnownGood ==
    /\ published = LastReturned
    /\ published # 0 => published \in DOMAIN heap /\ Complete(heap[published])
    /\ cause # "none" => outcome = "UpdateFailed"

\* C1 witness: a cycle failed on a dataset while an earlier snapshot stays published.
C1_Witness ==
    /\ outcome = "UpdateFailed"
    /\ cause \in DatasetErrors
    /\ published # 0
    /\ published < cycle

\* C2 (as claimed): a cycle in which one dataset failed and at least one succeeded still
\* awaits every required dataset and publishes the object it built.
C2_PartialFailurePublishes ==
    (pc = "idle" /\ cause \in DatasetErrors /\ Succeeded # {})
        => /\ outcome = "ok"
           /\ published = data
           /\ \A d \in DataObjects(config) : fetched[d] = 1

\* C3: in every snapshot the coordinator has been given, each dataset is either untouched
\* or has its timestamp and payload set from the same document of the same source.
C3_NoHalfPopulatedResult ==
    \A i \in returned \cup ({published} \ {0}) :
        /\ i \in DOMAIN heap
        /\ \A d \in Datasets :
              Absent(heap[i].ds[d]) \/ FullyPopulated(d, heap[i].ds[d])

\* C3 witness: a snapshot is published while the object of a later, failed cycle holds a
\* dataset whose timestamp is set and whose payload is not.
C3_Witness ==
    /\ published # 0
    /\ data # published
    /\ data \in DOMAIN heap
    /\ \E d \in Datasets : heap[data].ds[d].ts # 0 /\ heap[data].ds[d].payload = 0

\* C4 (as claimed): a structural lookup failure on a dataset response (KeyError on a
\* missing key, IndexError on a missing element) never ends the caller's cycle.
C4_StructuralFailureNotRaised ==
    cause \in {"KeyError", "IndexError"} => outcome # "UpdateFailed"

\* The datasets the configuration requires: all seven for the weather entity, else one
\* per enabled sensor group.
RequiredDatasets(c) ==
    IF c.weather
    THEN Datasets
    ELSE (IF c.areas THEN {"forecast2hr"} ELSE {}) \cup
         (IF c.region THEN {"forecast24hr"} ELSE {}) \cup
         (IF c.rain THEN {"rain"} ELSE {})

\* C5 (as claimed): a cycle that returns has fetched each required dataset exactly once
\* and no other dataset.
C5_FetchedEqualsRequired ==
    outcome = "ok" =>
        \A d \in Datasets : fetched[d] = IF d \in RequiredDatasets(config) THEN 1 ELSE 0

\* C6 (as claimed): a processed dataset had its primary endpoint requested, comes from
\* the primary payload when that is usable, and from the secondary source only otherwise.
C6_PrimaryFirst ==
    data \in DOMAIN heap /\ data = cycle =>
        \A d \in Datasets :
            heap[data].ds[d].source # "none" =>
                /\ d \in primaryReq
                /\ primary = "usable" => heap[data].ds[d].source = "primary"
                /\ heap[data].ds[d].source = "secondary" => primary \in {"short", "error"}

\* Requests one construction of the adapter makes when every endpoint answers.
RequestsPerAdapter ==
    LET Sum[i \in 0..Len(GET_ENDPOINTS)] ==
            IF i = 0 THEN 0 ELSE Sum[i - 1] + RequestsFor(GET_ENDPOINTS[i])
    IN Sum[Len(GET_ENDPOINTS)]

\* C7: a cycle makes at most one adapter's worth of requests, all before the first
\* dataset is processed; the datasets of a snapshot all hold the snapshot's adapter, and
\* that adapter was created in the snapshot's own cycle.
C7_AdapterOncePerCycle ==
    /\ [](netCalls <= RequestsPerAdapter)
    /\ [](\A i \in DOMAIN heap :
              /\ heap[i].weather = heap[i].query_time
              /\ \A d \in Datasets :
                    /\ heap[i].ds[d].weather = heap[i].weather
                    /\ heap[i].ds[d].payload \in {0, heap[i].weather})
    /\ [][pc = "fetching" => netCalls' = netCalls]_vars

\* C7 witness: in a cycle after a returned one, two datasets are populated from the one
\* adapter of the cycle, which made its requests once.
C7_Witness ==
    /\ returned # {}
    /\ data = cycle
    /\ data \notin returned
    /\ data \in DOMAIN heap
    /\ netCalls = RequestsPerAdapter
    /\ \E d1, d2 \in Datasets :
          /\ d1 # d2
          /\ heap[data].ds[d1].payload = heap[data].weather
          /\ heap[data].ds[d2].payload = heap[data].weather

\* C8: the step on which the deadline fires ends the cycle as UpdateFailed and leaves the
\* coordinator's data, the object under construction and every snapshot as they were.
C8_DeadlineIsUpdateFailed ==
    [][(cause' = "TimeoutError" /\ outcome = "running") =>
          /\ outcome' = "UpdateFailed"
          /\ pc' = "idle"
          /\ published' = published
          /\ heap' = heap
          /\ data' = data]_vars

\* C8 witness: the deadline ended a cycle and the snapshot of an earlier cycle is published.
C8_Witness ==
    /\ cause = "TimeoutError"
    /\ outcome = "UpdateFailed"
    /\ published # 0
    /\ published < cycle

\* C9 (as claimed): when the deadline fires after some fetches completed, the cycle
\* goes on to return and publish the object of that cycle.
C9_DeadlinePublishesCompleted ==
    (cause = "TimeoutError" /\ getIdx > 1) => (outcome = "ok" /\ published = cycle)

\* C9 (amended): when the deadline fires, however many fetches had completed, the cycle
\* assembles nothing: no dataset is processed, no object of that cycle is assigned to
\* self.data, returned or published.
C9_DeadlineAbandonsCycle ==
    cause = "TimeoutError" =>
        /\ pc = "idle"
        /\ \A d \in Datasets : fetched[d] = 0
        /\ data # cycle
        /\ cycle \notin returned
        /\ published # cycle

\* C9 witness: the deadline fired after every endpoint of the adapter had answered.
C9_Witness ==
    /\ cause = "TimeoutError"
    /\ getIdx = Len(GET_ENDPOINTS) + 1
    /\ netCalls = RequestsPerAdapter

\* C10: no step changes a snapshot that has been returned, and every returned snapshot
\* is an object no earlier cycle returned.
C10_SnapshotImmutable ==
    [][/\ \A i \in returned : i \in DOMAIN heap' /\ heap'[i] = heap[i]
       /\ returned' # returned => published' \notin returned]_vars

\* C10 witness: a second snapshot has been returned after the first one.
C10_Witness ==
    /\ Cardinality(returned) >= 2
    /\ published = LastReturned
    /\ \A i \in returned : heap[i].query_time = i

(***************************************************************************)
(* One dataset object of nea.py: its constructor, then one async_init on a *)
(* document of the adapter                                                 *)
(***************************************************************************)

\* Longest reading list of a temperature, humidity or rainfall document.
MaxReadings == 3

\* Sequences over S of length at most n.
SeqsUpTo(S, n) == UNION {[1..k -> S] : k \in 0..n}

\* A Python str and a Python number, kept apart as Python keeps "" apart from 0.
PyStr(s) == [str |-> s]
PyNum(n) == [num |-> n]

\* items[0].timestamp of the documents.
Timestamps == {"2024-01-01T10:00:00+08:00"}

\* Station ids carried by the readings of the realtime documents.
StationIds == {"S107", "S24"}

\* Reading values, in whole units; an average is kept in hundredths of a unit.
ReadingValues == {-1, 0, 1, 2}

\* The temperature and humidity documents: a timestamp and a list of readings.
ReadingDocs ==
    [timestamp : Timestamps,
     readings  : SeqsUpTo([station_id : {"S107"}, value : ReadingValues], MaxReadings)]

\* round(x, 2) of the quotient num / den, in hundredths: to nearest, ties to even.
Round2(num, den) ==
    LET q == (100 * num) \div den
        r == (100 * num) % den
    IN  IF 2 * r < den THEN q
        ELSE IF 2 * r > den THEN q + 1
        ELSE IF q % 2 = 0 THEN q ELSE q + 1

RECURSIVE list_mean_loop(_, _, _, _)
\* The for loop of list_mean from reading k on: sum_values and i after the last one.
list_mean_loop(values, k, sum_values, i) ==
    IF k > Len(values)
    THEN [sum_values |-> sum_values, i |-> i]
    ELSE IF values[k].value > 0
         THEN list_mean_loop(values, k + 1, sum_values + values[k].value, i + 1)
         ELSE list_mean_loop(values, k + 1, sum_values, i)

\* Mutant: list_mean answering 0 when no reading qualifies.
list_mean_ZeroDefault(values) ==
    LET acc == list_mean_loop(values, 1, 0, 0)
    IN  IF acc.i = 0
        THEN [raised |-> "none", value |-> 0]
        ELSE [raised |-> "none", value |-> Round2(acc.sum_values, acc.i)]

\* Mutant: list_mean dividing by the number of all readings.
list_mean_AllReadings(values) ==
    LET acc == list_mean_loop(values, 1, 0, 0)
    IN  IF Len(values) = 0
        THEN [raised |-> "ZeroDivisionError", value |-> 0]
        ELSE [raised |-> "none", value |-> Round2(acc.sum_values, Len(values))]

\* list_mean: round(sum_values / i, 2); the division raises when i is 0.
list_mean(values) ==
    LET acc == list_mean_loop(values, 1, 0, 0)
    IN  IF acc.i = 0
        THEN [raised |-> "ZeroDivisionError", value |-> 0]
        ELSE [raised |-> "none", value |-> Round2(acc.sum_values, acc.i)]

\* Temperature.__init__
Temperature_init == [timestamp |-> "", temp_avg |-> PyStr("")]

\* Humidity.__init__
Humidity_init == [timestamp |-> "", humd_avg |-> PyNum(0)]

\* Temperature.process_data: the timestamp, then the average of the readings.
Temperature_process_data(o, r) ==
    LET o1 == [o EXCEPT !.timestamp = r.timestamp]
        m  == list_mean(r.readings)
    IN  IF m.raised # "none"
        THEN [obj |-> o1, raised |-> m.raised]
        ELSE [obj |-> [o1 EXCEPT !.temp_avg = PyNum(m.value)], raised |-> "none"]

\* Humidity.process_data: the timestamp, then the average of the readings.
Humidity_process_data(o, r) ==
    LET o1 == [o EXCEPT !.timestamp = r.timestamp]
        m  == list_mean(r.readings)
    IN  IF m.raised # "none"
        THEN [obj |-> o1, raised |-> m.raised]
        ELSE [obj |-> [o1 EXCEPT !.humd_avg = PyNum(m.value)], raised |-> "none"]

\* Longest reading list of each of the two wind documents.
MaxWindReadings == 2

\* Wind speeds of the readings, in whole knots.
WindSpeeds == {1, 2}

\* Wind directions of the readings, in degrees: the four cardinal points, for which
\* the cosine and the sine below are a whole number or a rounding residue.
WindDirections == {0, 90, 180, 270}

\* The wind-speed and the wind-direction document read by the two halves of Wind.
WindDocs ==
    [speed     : [timestamp : Timestamps,
                  readings  : SeqsUpTo([station_id : StationIds, value : WindSpeeds],
                                       MaxWindReadings)],
     direction : [timestamp : Timestamps,
                  readings  : SeqsUpTo([station_id : StationIds, value : WindDirections],
                                       MaxWindReadings)]]

\* A float of the wind arithmetic: whole + eps * 6.123e-17. math.radians of a multiple
\* of 90 is not the exact multiple of pi / 2, so the cosine or sine that would be 0 is
\* a residue of a few 6.123e-17 (cos 270 = -1.837e-16 is -3 of them); lost says that a
\* residue and a whole part were added to one another, which rounds the residue.
Float(whole, eps) == [whole |-> whole, eps |-> eps, lost |-> FALSE]

\* math.cos(math.radians(value + 180)) at the cardinal points:
\* -1.0, -1.837e-16, 1.0, 3.062e-16.
CosPlus180(value) ==
    CASE value = 0   -> Float(-1, 0)
      [] value = 90  -> Float(0, -3)
      [] value = 180 -> Float(1, 0)
      [] value = 270 -> Float(0, 5)

\* math.sin(math.radians(value + 180)) at the cardinal points:
\* 1.225e-16, -1.0, -2.449e-16, 1.0.
SinPlus180(value) ==
    CASE value = 0   -> Float(0, 2)
      [] value = 90  -> Float(-1, 0)
      [] value = 180 -> Float(0, -4)
      [] value = 270 -> Float(1, 0)

\* sum += value * x, in floats.
AddScaled(sum, value, x) ==
    [whole |-> sum.whole + value * x.whole,
     eps   |-> sum.eps + value * x.eps,
     lost  |-> \/ sum.lost
               \/ (x.whole # 0 /\ sum.eps # 0)
               \/ (x.eps # 0 /\ sum.whole # 0)]

\* The sign of a float: of its whole part, or of the residue when that is all it is.
SignOf(f) ==
    CASE f.whole > 0 -> 1
      [] f.whole < 0 -> -1
      [] f.whole = 0 /\ f.eps > 0 -> 1
      [] f.whole = 0 /\ f.eps < 0 -> -1
      [] f.whole = 0 /\ f.eps = 0 -> 0

\* A sum whose whole part cancelled after residues were rounded into it: what is left
\* is a rounding error of either sign, or nothing.
Rounded(f) == f.whole = 0 /\ f.lost

\* A float result known by its range: the value min when min = max, a value strictly
\* between min and max when open, and any value from min to max otherwise.
Exactly(d) == [min |-> d, max |-> d, open |-> FALSE]

Between(a, b) == [min |-> a, max |-> b, open |-> TRUE]

\* math.sqrt(math.pow(ns_avg, 2) + math.pow(ew_avg, 2)): 0.0 for two zeros, else
\* positive and no more than the readings' speeds together.
agg_wind_speed(ns, ew, total) ==
    IF Rounded(ns) \/ Rounded(ew)
    THEN [min |-> 0, max |-> total + 1, open |-> FALSE]
    ELSE IF SignOf(ns) = 0 /\ SignOf(ew) = 0
         THEN Exactly(0)
         ELSE Between(0, total + 1)

\* math.degrees(math.atan2(ew_avg, ns_avg)), and 360 added to a negative result.
\* Dividing both sums by readings_used changes neither sign nor which of the two is
\* a residue. A sum that is a residue beside a whole one gives an angle next to the
\* axis: next to -0, that is -1.4e-14 for one reading of direction 180, and adding 360
\* rounds to 360.0 as long as the angle is under half the float spacing at 360
\* (2.84e-14 degrees, 8 residues for each whole unit).
agg_wind_direction(ns, ew) ==
    LET sx == SignOf(ns)
        sy == SignOf(ew)
    IN  IF Rounded(ns) \/ Rounded(ew)
        THEN [min |-> 0, max |-> 360, open |-> FALSE]
        ELSE IF sy = 0
        THEN IF sx >= 0 THEN Exactly(0) ELSE Exactly(180)
        ELSE IF sx = 0
        THEN IF sy > 0 THEN Exactly(90) ELSE Exactly(270)
        ELSE IF (ns.whole # 0) = (ew.whole # 0)
        THEN CASE sx > 0 /\ sy > 0 -> Between(0, 90)
               [] sx < 0 /\ sy > 0 -> Between(90, 180)
               [] sx < 0 /\ sy < 0 -> Between(180, 270)
               [] sx > 0 /\ sy < 0 -> Between(270, 360)
        ELSE IF ew.whole = 0
        THEN IF sx < 0
             THEN Between(90, 270)
             ELSE IF sy > 0
                  THEN Between(0, 90)
                  ELSE IF -ew.eps <= 8 * ns.whole
                       THEN Exactly(360)
                       ELSE Between(270, 360)
        ELSE IF sy > 0 THEN Between(0, 180) ELSE Between(180, 360)

RECURSIVE calc_wind_status_loop(_, _, _, _, _)
\* The two nested for loops of calc_wind_status, from speed reading a and
\* direction reading b on.
calc_wind_status_loop(wind_speed, wind_direction, a, b, result) ==
    IF a > Len(wind_speed)
    THEN result
    ELSE IF b > Len(wind_direction)
         THEN calc_wind_status_loop(wind_speed, wind_direction, a + 1, 1, result)
         ELSE calc_wind_status_loop(wind_speed, wind_direction, a, b + 1,
                  IF wind_speed[a].station_id = wind_direction[b].station_id
                  THEN [result EXCEPT
                           !.ns_sum = AddScaled(@, wind_speed[a].value,
                                                CosPlus180(wind_direction[b].value)),
                           !.ew_sum = AddScaled(@, wind_speed[a].value,
                                                SinPlus180(wind_direction[b].value)),
                           !.speed_sum = @ + wind_speed[a].value,
                           !.readings_used = @ + 1]
                  ELSE result)

\* Mutant: calc_wind_status answering its initial zeros when no reading was used.
calc_wind_status_ZeroDefault(wind_speed, wind_direction) ==
    [raised |-> "none",
     result |-> calc_wind_status_loop(wind_speed, wind_direction, 1, 1,
                    [ns_sum |-> Float(0, 0), ew_sum |-> Float(0, 0),
                     speed_sum |-> 0, readings_used |-> 0])]

\* calc_wind_status: the sums over the pairs of readings of one station, then the
\* two divisions by readings_used, which raise when no pair matched, then the speed
\* (square root) and the direction (arc tangent) of the averages. speed_sum is not a
\* key of the code's dict: it is the bound of the speed's range.
calc_wind_status(wind_speed, wind_direction) ==
    LET result == calc_wind_status_loop(wind_speed, wind_direction, 1, 1,
                      [ns_sum |-> Float(0, 0), ew_sum |-> Float(0, 0),
                       speed_sum |-> 0, readings_used |-> 0])
    IN  IF result.readings_used = 0
        THEN [raised |-> "ZeroDivisionError", result |-> result]
        ELSE [raised |-> "none",
              result |-> [ns_sum             |-> result.ns_sum,
                          ew_sum             |-> result.ew_sum,
                          readings_used      |-> result.readings_used,
                          agg_wind_speed     |-> agg_wind_speed(result.ns_sum, result.ew_sum,
                                                                result.speed_sum),
                          agg_wind_direction |-> agg_wind_direction(result.ns_sum,
                                                                    result.ew_sum)]]

\* Wind.__init__: the two halves; wind_status, wind_speed_avg and wind_dir_avg are
\* annotations only, the attributes do not exist yet.
Wind_init ==
    [direction |-> [timestamp |-> "", data |-> <<>>],
     speed     |-> [timestamp |-> "", data |-> <<>>]]

\* Wind.async_init: WindDirection and WindSpeed process their documents, then the
\* aggregate is computed and stored.
Wind_async_init(o, r) ==
    LET o1 == [direction |-> [timestamp |-> r.direction.timestamp,
                              data      |-> r.direction.readings],
               speed     |-> [timestamp |-> r.speed.timestamp,
                              data      |-> r.speed.readings]]
        w  == calc_wind_status(o1.speed.data, o1.direction.data)
    IN  IF w.raised # "none"
        THEN [obj |-> o1, raised |-> w.raised]
        ELSE [obj |-> [direction   |-> o1.direction,
                       speed       |-> o1.speed,
                       wind_status |-> w.result],
              raised |-> "none"]

\* The fixed enumeration of rain sensors (const.RAIN_SENSOR_LIST): two of its stations.
RAIN_SENSOR_LIST ==
    << [id |-> "S77",  name |-> "name of S77",  location |-> "location of S77"],
       [id |-> "S109", name |-> "name of S109", location |-> "location of S109"] >>

\* Station ids a rainfall document can carry: the known ones and one that is not.
RainStationIds == {RAIN_SENSOR_LIST[i].id : i \in DOMAIN RAIN_SENSOR_LIST} \cup {"S999"}

\* Rainfall values of the readings.
RainValues == {0, 1, 2}

\* The rainfall documents.
RainDocs ==
    [timestamp : Timestamps,
     readings  : SeqsUpTo([station_id : RainStationIds, value : RainValues], MaxReadings)]

\* dct[k] = v on a Python dict: the key is added, or its value replaced.
DictSet(dct, k, v) == [x \in (DOMAIN dct) \cup {k} |-> IF x = k THEN v ELSE dct[x]]

\* list.index(x): the position of the first occurrence, 0 where Python raises ValueError.
ListIndex(lst, x) ==
    IF \E k \in DOMAIN lst : lst[k] = x
    THEN CHOOSE k \in DOMAIN lst : lst[k] = x /\ \A m \in 1..(k - 1) : lst[m] # x
    ELSE 0

\* Rain.__init__
Rain_init == [timestamp |-> "", data |-> <<>>, metadata |-> <<>>, station_list |-> <<>>]

RECURSIVE Rain_process_data_loop(_, _, _)
\* The for loop of Rain.process_data from station i on: the upstream value of the
\* station, or 0 in the except branch of a station the document does not carry.
Rain_process_data_loop(resp_data, i, dct) ==
    IF i > Len(RAIN_SENSOR_LIST)
    THEN dct
    ELSE LET station_id == RAIN_SENSOR_LIST[i].id
             j == ListIndex([k \in DOMAIN resp_data |-> resp_data[k].station_id], station_id)
         IN  Rain_process_data_loop(resp_data, i + 1,
                 DictSet(dct, station_id,
                         [value    |-> IF j # 0 THEN resp_data[j].value ELSE 0,
                          name     |-> RAIN_SENSOR_LIST[i].name,
                          location |-> RAIN_SENSOR_LIST[i].location]))

RECURSIVE Rain_upstream_loop(_, _, _)
\* A loop over the upstream readings instead of the known stations.
Rain_upstream_loop(resp_data, j, dct) ==
    IF j > Len(resp_data)
    THEN dct
    ELSE Rain_upstream_loop(resp_data, j + 1,
             DictSet(dct, resp_data[j].station_id,
                     [value |-> resp_data[j].value, name |-> "", location |-> ""]))

\* Mutant: the station map built from whatever stations the document carries.
Rain_process_data_Upstream(o, r) ==
    [obj |-> [o EXCEPT !.timestamp = r.timestamp,
                       !.station_list = RAIN_SENSOR_LIST,
                       !.data = Rain_upstream_loop(r.readings, 1, <<>>)],
     raised |-> "none"]

\* Rain.process_data: the timestamp, the station list, then one entry per known station.
Rain_process_data(o, r) ==
    [obj |-> [o EXCEPT !.timestamp = r.timestamp,
                       !.station_list = RAIN_SENSOR_LIST,
                       !.data = Rain_process_data_loop(r.readings, 1, <<>>)],
     raised |-> "none"]

\* Rain.process_secondary_data: every known station with value 0.
Rain_process_secondary_data(o) ==
    [o EXCEPT !.station_list = RAIN_SENSOR_LIST,
              !.data = [sid \in {RAIN_SENSOR_LIST[i].id : i \in DOMAIN RAIN_SENSOR_LIST} |->
                           LET i == CHOOSE i \in DOMAIN RAIN_SENSOR_LIST :
                                        RAIN_SENSOR_LIST[i].id = sid
                           IN  [value    |-> 0,
                                name     |-> RAIN_SENSOR_LIST[i].name,
                                location |-> RAIN_SENSOR_LIST[i].location]]]

\* Most area forecasts in a 2-hour document.
MaxAreas == 3

\* const.AREAS: the first two of its names.
AREAS == {"Ang Mo Kio", "Bedok"}

\* Area names a 2-hour document can carry: the known ones and one that is not.
UpstreamAreas == AREAS \cup {"Atlantis"}

\* Forecast descriptions of the 2-hour and 24-hour documents (CODE_DESCRIPTION_MAP).
Descriptions == {"Cloudy", "Fair (Day)"}

\* The 2-hour documents the adapter generates: one forecast and one metadata entry
\* per upstream area, in upstream order.
Forecast2hrDocs ==
    {[timestamp     |-> t,
      forecasts     |-> f,
      area_metadata |-> [i \in DOMAIN f |->
                            [name           |-> f[i].area,
                             label_location |-> [latitude  |-> <<"Lat", f[i].area>>,
                                                 longitude |-> <<"Lon", f[i].area>>]]]] :
        t \in Timestamps,
        f \in SeqsUpTo([area : UpstreamAreas, forecast : Descriptions], MaxAreas)}

\* The documents of the same schema that process_data can be given: it reads the two
\* lists independently, and only the adapter's generator builds them in step. Here
\* area_metadata has any length up to MaxAreas; its entries beyond the forecasts name
\* one more area.
Forecast2hrSchemaDocs ==
    {[timestamp     |-> t,
      forecasts     |-> f,
      area_metadata |-> [i \in 1..m |->
                            LET name == IF i <= Len(f) THEN f[i].area ELSE "Bedok"
                            IN  [name           |-> name,
                                 label_location |-> [latitude  |-> <<"Lat", name>>,
                                                     longitude |-> <<"Lon", name>>]]]] :
        t \in Timestamps,
        f \in SeqsUpTo([area : UpstreamAreas, forecast : Descriptions], MaxAreas),
        m \in 0..MaxAreas}

\* The elements of a list, as set() collects them.
PySet(lst) == {lst[k] : k \in DOMAIN lst}

\* The orders in which a Python set of these elements can be iterated.
IterationOrders(S) ==
    {order \in [1..Cardinality(S) -> S] :
        \A a, b \in 1..Cardinality(S) : a # b => order[a] # order[b]}

\* lst.count(x)
ListCount(lst, x) == Cardinality({k \in DOMAIN lst : lst[k] = x})

\* max(order, key=lst.count): the first element, in iteration order, no other exceeds.
MaxByCount(order, lst) ==
    order[CHOOSE k \in DOMAIN order :
              /\ \A m \in DOMAIN order : ListCount(lst, order[m]) <= ListCount(lst, order[k])
              /\ \A m \in 1..(k - 1) : ListCount(lst, order[m]) < ListCount(lst, order[k])]

\* Forecast2hr.__init__
Forecast2hr_init ==
    [timestamp |-> "", current_condition |-> "", area_forecast |-> <<>>, metadata |-> <<>>]

RECURSIVE Forecast2hr_area_forecast(_, _, _, _)
\* The dict comprehension of Forecast2hr.process_data from forecast i on; metadata[i]
\* raises IndexError when the metadata list is the shorter one.
Forecast2hr_area_forecast(forecasts, metadata, i, dct) ==
    IF i > Len(forecasts)
    THEN [raised |-> "none", dct |-> dct]
    ELSE IF i > Len(metadata)
         THEN [raised |-> "IndexError", dct |-> dct]
         ELSE Forecast2hr_area_forecast(forecasts, metadata, i + 1,
                  DictSet(dct, forecasts[i].area,
                          [forecast |-> forecasts[i].forecast,
                           location |-> metadata[i].label_location]))

\* Forecast2hr.process_data, the set of conditions being iterated in `order`:
\* timestamp and metadata, the most common condition (max of an empty set raises
\* ValueError), then the area map with one key per upstream area name.
Forecast2hr_process_data(o, r, order) ==
    LET o1 == [o EXCEPT !.timestamp = r.timestamp, !.metadata = r.area_metadata]
        _current_condition_list == [k \in DOMAIN r.forecasts |-> r.forecasts[k].forecast]
        o2 == [o1 EXCEPT !.current_condition = MaxByCount(order, _current_condition_list)]
        af == Forecast2hr_area_forecast(r.forecasts, o1.metadata, 1, <<>>)
    IN  IF _current_condition_list = <<>>
        THEN [obj |-> o1, raised |-> "ValueError"]
        ELSE IF af.raised # "none"
             THEN [obj |-> o2, raised |-> af.raised]
             ELSE [obj |-> [o2 EXCEPT !.area_forecast = af.dct], raised |-> "none"]

\* Most periods in a 24-hour document.
MaxPeriods == 2

\* The regions gen_24_hour_weather_forecast writes into every period.
Regions == {"west", "east", "central", "south", "north"}

\* Calendar dates, as day numbers: of the clock and of the start of a period.
Dates == {1, 2}

\* Hours of the day.
Hours == 0..23

\* The 24-hour documents the adapter generates: every period carries the five regions.
Forecast24hrDocs ==
    [timestamp : Timestamps,
     periods   : SeqsUpTo([time    : [start : [date : Dates, hour : Hours]],
                           regions : {[region \in Regions |-> "Cloudy"]}],
                          MaxPeriods)]

\* Mutant: a classifier by range of hours.
TimeOfDay_Ranges(hour) ==
    IF hour >= 6 /\ hour < 12 THEN "morning"
    ELSE IF hour >= 12 /\ hour < 18 THEN "afternoon"
    ELSE "evening"

\* _time_of_day: morning at hour 6, afternoon at hour 12, evening otherwise.
TimeOfDay(hour) ==
    IF hour = 6 THEN "morning"
    ELSE IF hour = 12 THEN "afternoon"
    ELSE "evening"

\* _day: "Today " when the start of the period has the date of now (UTC+8).
DayOf(date, now) == IF date = now THEN "Today " ELSE "Tomorrow "

\* Forecast24hr.__init__
Forecast24hr_init == [timestamp |-> "", region_forecast |-> <<>>]

\* Forecast24hr.process_data at date now: the timestamp, then for every region key of
\* the first period (IndexError without one) the list of [label, condition] of the
\* periods; the label _day + _time_of_day is kept as its two parts.
Forecast24hr_process_data(o, r, now) ==
    LET o1 == [o EXCEPT !.timestamp = r.timestamp]
    IN  IF r.periods = <<>>
        THEN [obj |-> o1, raised |-> "IndexError"]
        ELSE [obj |-> [o1 EXCEPT !.region_forecast =
                          [region \in DOMAIN r.periods[1].regions |->
                              [k \in DOMAIN r.periods |->
                                  [day         |-> DayOf(r.periods[k].time.start.date, now),
                                   time_of_day |-> TimeOfDay(r.periods[k].time.start.hour),
                                   condition   |-> r.periods[k].regions[region]]]]],
              raised |-> "none"]

\* Most entries in a 4-day document.
MaxDays == 2

\* A Python str whose contents matter is the sequence of its characters.
UpperCase == <<"A", "B", "C", "D", "E", "F", "G", "H", "I", "J", "K", "L", "M", "N", "O", "P", "Q", "R", "S", "T", "U", "V", "W", "X", "Y", "Z">>

LowerCase == <<"a", "b", "c", "d", "e", "f", "g", "h", "i", "j", "k", "l", "m", "n", "o", "p", "q", "r", "s", "t", "u", "v", "w", "x", "y", "z">>

\* str.lower()
Lower(text) ==
    [k \in DOMAIN text |->
        IF \E u \in DOMAIN UpperCase : UpperCase[u] = text[k]
        THEN LowerCase[CHOOSE u \in DOMAIN UpperCase : UpperCase[u] = text[k]]
        ELSE text[k]]

\* keyword in text
Contains(text, keyword) ==
    \E i \in 0..(Len(text) - Len(keyword)) :
        \A j \in 1..Len(keyword) : text[i + j] = keyword[j]

\* const.FORECAST_MAP_CONDITION, in the order of the dict.
FORECAST_MAP_CONDITION ==
    << [keyword |-> <<"t", "h", "u", "n", "d", "e", "r", "y", " ", "s", "h", "o", "w", "e", "r", "s">>,
        condition |-> "lightning-rainy"],
       [keyword |-> <<"p", "a", "r", "t", "l", "y", " ", "c", "l", "o", "u", "d", "y">>,
        condition |-> "partlycloudy"],
       [keyword |-> <<"r", "a", "i", "n">>,
        condition |-> "rainy"],
       [keyword |-> <<"s", "h", "o", "w", "e", "r", "s">>,
        condition |-> "rainy"],
       [keyword |-> <<"f", "a", "i", "r">>,
        condition |-> "sunny"],
       [keyword |-> <<"h", "a", "z", "y">>,
        condition |-> "fog"],
       [keyword |-> <<"c", "l", "o", "u", "d", "y">>,
        condition |-> "cloudy"],
       [keyword |-> <<"o", "v", "e", "r", "c", "a", "s", "t">>,
        condition |-> "cloudy"],
       [keyword |-> <<"w", "i", "n", "d", "y">>,
        condition |-> "windy"] >>

\* Forecast texts of the 4-day documents: "Fair", "Thundery Showers",
\* "Partly Cloudy" and "Sunny", which holds none of the keywords.
ForecastTexts ==
    {<<"F", "a", "i", "r">>,
     <<"T", "h", "u", "n", "d", "e", "r", "y", " ", "S", "h", "o", "w", "e", "r", "s">>,
     <<"P", "a", "r", "t", "l", "y", " ", "C", "l", "o", "u", "d", "y">>,
     <<"S", "u", "n", "n", "y">>}

\* The 4-day documents.
Forecast4dayDocs ==
    [forecasts : SeqsUpTo([timestamp : {"2024-01-02T00:00:00+08:00"},
                           forecast  : ForecastTexts], MaxDays)]

\* Forecast4day.__init__
Forecast4day_init == [forecast |-> <<>>]

\* The inner for loop of Forecast4day.process_data: the index of the first keyword,
\* in dict order, the lower-cased text holds; 0 when the loop ends without a break.
FirstKeyword(text) ==
    IF \E c \in DOMAIN FORECAST_MAP_CONDITION :
          Contains(Lower(text), FORECAST_MAP_CONDITION[c].keyword)
    THEN CHOOSE c \in DOMAIN FORECAST_MAP_CONDITION :
            /\ Contains(Lower(text), FORECAST_MAP_CONDITION[c].keyword)
            /\ \A b \in 1..(c - 1) :
                  ~Contains(Lower(text), FORECAST_MAP_CONDITION[b].keyword)
    ELSE 0

RECURSIVE Forecast4day_loop(_, _, _)
\* The outer for loop of Forecast4day.process_data from entry k on: an entry is
\* appended with the condition of its first keyword; the other keys of the entry
\* (temperatures, wind) are copied from the document.
Forecast4day_loop(forecasts, k, out) ==
    IF k > Len(forecasts)
    THEN out
    ELSE Forecast4day_loop(forecasts, k + 1,
             IF FirstKeyword(forecasts[k].forecast) # 0
             THEN Append(out,
                         [datetime  |-> forecasts[k].timestamp,
                          condition |-> FORECAST_MAP_CONDITION[
                                            FirstKeyword(forecasts[k].forecast)].condition])
             ELSE out)

\* Forecast4day.process_data: the list is rebuilt from the document.
Forecast4day_process_data(o, r) ==
    [obj |-> [o EXCEPT !.forecast = Forecast4day_loop(r.forecasts, 1, <<>>)],
     raised |-> "none"]

\* NeaData.__init__ builds one object of each of the seven classes.
Constructed(d) ==
    CASE d = "forecast2hr"  -> Forecast2hr_init
      [] d = "forecast24hr" -> Forecast24hr_init
      [] d = "forecast4day" -> Forecast4day_init
      [] d = "temperature"  -> Temperature_init
      [] d = "humidity"     -> Humidity_init
      [] d = "wind"         -> Wind_init
      [] d = "rain"         -> Rain_init

\* The documents weather.api.json can hold for a dataset.
Documents(d) ==
    CASE d = "forecast2hr"  -> Forecast2hrDocs \cup Forecast2hrSchemaDocs
      [] d = "forecast24hr" -> Forecast24hrDocs
      [] d = "forecast4day" -> Forecast4dayDocs
      [] d = "temperature"  -> ReadingDocs
      [] d = "humidity"     -> ReadingDocs
      [] d = "wind"         -> WindDocs
      [] d = "rain"         -> RainDocs

\* The update cycle at rest: the value of cycleVars while one object is studied.
UpdaterIdle ==
    /\ config = [weather |-> TRUE, areas |-> FALSE, region |-> FALSE, rain |-> FALSE]
    /\ pc = "idle"
    /\ cycle = 0
    /\ getIdx = 1
    /\ netCalls = 0
    /\ primary = "usable"
    /\ primaryReq = {}
    /\ heap = <<>>
    /\ data = 0
    /\ published = 0
    /\ returned = {}
    /\ fetched = [d \in Datasets |-> 0]
    /\ outcome = "none"
    /\ cause = "none"

\* A dataset object as NeaData.__init__ constructs it, and the document and the
\* date its async_init will meet.
ExtractInit ==
    /\ UpdaterIdle
    /\ CameraUnused
    /\ dataset \in Datasets
    /\ resp \in Documents(dataset)
    /\ today \in (IF dataset = "forecast24hr" THEN Dates ELSE {1})
    /\ obj = Constructed(dataset)
    /\ raised = "none"
    /\ calls = 0

\* Forecast2hr.async_init: fetch_data stores the document and calls process_data;
\* the order in which the set of conditions is iterated is not fixed.
Forecast2hr_async_init ==
    /\ dataset = "forecast2hr"
    /\ calls = 0
    /\ \E order \in IterationOrders(PySet([k \in DOMAIN resp.forecasts |->
                                               resp.forecasts[k].forecast])) :
          /\ obj' = Forecast2hr_process_data(obj, resp, order).obj
          /\ raised' = Forecast2hr_process_data(obj, resp, order).raised
    /\ calls' = 1
    /\ UNCHANGED <<dataset, resp, today, cycleVars, cameraVars>>

\* Forecast24hr.async_init
Forecast24hr_async_init ==
    /\ dataset = "forecast24hr"
    /\ calls = 0
    /\ obj' = Forecast24hr_process_data(obj, resp, today).obj
    /\ raised' = Forecast24hr_process_data(obj, resp, today).raised
    /\ calls' = 1
    /\ UNCHANGED <<dataset, resp, today, cycleVars, cameraVars>>

\* Forecast4day.async_init
Forecast4day_async_init ==
    /\ dataset = "forecast4day"
    /\ calls = 0
    /\ obj' = Forecast4day_process_data(obj, resp).obj
    /\ raised' = Forecast4day_process_data(obj, resp).raised
    /\ calls' = 1
    /\ UNCHANGED <<dataset, resp, today, cycleVars, cameraVars>>

\* Temperature.async_init
Temperature_async_init ==
    /\ dataset = "temperature"
    /\ calls = 0
    /\ obj' = Temperature_process_data(obj, resp).obj
    /\ raised' = Temperature_process_data(obj, resp).raised
    /\ calls' = 1
    /\ UNCHANGED <<dataset, resp, today, cycleVars, cameraVars>>

\* Humidity.async_init
Humidity_async_init ==
    /\ dataset = "humidity"
    /\ calls = 0
    /\ obj' = Humidity_process_data(obj, resp).obj
    /\ raised' = Humidity_process_data(obj, resp).raised
    /\ calls' = 1
    /\ UNCHANGED <<dataset, resp, today, cycleVars, cameraVars>>

\* The call of Wind.async_init by the update cycle.
Wind_async_init_call ==
    /\ dataset = "wind"
    /\ calls = 0
    /\ obj' = Wind_async_init(obj, resp).obj
    /\ raised' = Wind_async_init(obj, resp).raised
    /\ calls' = 1
    /\ UNCHANGED <<dataset, resp, today, cycleVars, cameraVars>>

\* Rain.async_init
Rain_async_init ==
    /\ dataset = "rain"
    /\ calls = 0
    /\ obj' = Rain_process_data(obj, resp).obj
    /\ raised' = Rain_process_data(obj, resp).raised
    /\ calls' = 1
    /\ UNCHANGED <<dataset, resp, today, cycleVars, cameraVars>>

ExtractNext ==
    \/ Forecast2hr_async_init
    \/ Forecast24hr_async_init
    \/ Forecast4day_async_init
    \/ Temperature_async_init
    \/ Humidity_async_init
    \/ Wind_async_init_call
    \/ Rain_async_init

SpecExtract == ExtractInit /\ [][ExtractNext]_vars

(***************************************************************************)
(* Properties of the dataset objects and of the coordinator's boundary     *)
(***************************************************************************)

\* The attribute holding the average of a temperature or humidity object.
AverageOf(d, o) == IF d = "temperature" THEN o.temp_avg ELSE o.humd_avg

RECURSIVE SumValues(_)
\* The sum of the values of a list of readings.
SumValues(readings) ==
    IF readings = <<>> THEN 0 ELSE Head(readings).value + SumValues(Tail(readings))

\* The readings with a value above 0.
PositiveReadings(readings) == SelectSeq(readings, LAMBDA reading : reading.value > 0)

\* The ids of the known rain sensors.
KnownRainIds == {RAIN_SENSOR_LIST[i].id : i \in DOMAIN RAIN_SENSOR_LIST}

\* The exceptions a cycle of the model can end with.
CycleErrors == (GetOutcomes \ {"ok"}) \cup {"KeyError", "TimeoutError"} \cup DatasetErrors

\* C11 (as claimed): a dataset that is not required is absent from the snapshot, so a
\* dataset object that was fetched never reads like the object NeaData.__init__ leaves
\* there for a dataset that is not configured.
C11_UnconfiguredDistinguishable ==
    (calls = 1 /\ raised = "none") => obj # Constructed(dataset)

\* C12: no exception of an update cycle (adapter, snapshot construction, dataset
\* extraction, aggregation, deadline) leaves _async_update_data as anything but
\* UpdateFailed.
C12_OnlyUpdateFailedCrosses ==
    /\ outcome \in {"none", "running", "ok", "UpdateFailed"}
    /\ cause # "none" => cause \in CycleErrors /\ outcome = "UpdateFailed"
    /\ \A err \in CycleErrors : CoordinatorOutcome(err) = "UpdateFailed"

\* C12 witness: the wind aggregation raised and the cycle ended as UpdateFailed.
C12_Witness ==
    /\ cause = "ZeroDivisionError"
    /\ data # 0
    /\ fetched["wind"] = 1
    /\ heap[data].ds["wind"].payload = 0
    /\ outcome = "UpdateFailed"

\* C13: wind aggregation over a speed list and a direction list with no station id in
\* common (two empty lists included) raises, so the wind dataset fails; no aggregate,
\* zero or otherwise, is stored.
C13_ZeroOverlapRaises ==
    (/\ dataset = "wind"
     /\ calls = 1
     /\ PySet([k \in DOMAIN resp.speed.readings |-> resp.speed.readings[k].station_id])
           \cap PySet([k \in DOMAIN resp.direction.readings |->
                          resp.direction.readings[k].station_id]) = {})
    => /\ raised = "ZeroDivisionError"
       /\ raised = DegenerateError("wind")
       /\ "wind_status" \notin DOMAIN obj

\* C13 witness: both lists have readings, of different stations, and the aggregation raised.
C13_Witness ==
    /\ dataset = "wind"
    /\ calls = 1
    /\ Len(resp.speed.readings) = 2
    /\ \A k \in DOMAIN resp.speed.readings : resp.speed.readings[k].station_id = "S107"
    /\ Len(resp.direction.readings) = 1
    /\ resp.direction.readings[1].station_id = "S24"
    /\ raised = "ZeroDivisionError"

\* C14: averaging temperature or humidity readings none of which is above 0 (an empty
\* list, or only values <= 0) raises, so the dataset fails; no number is stored as the
\* average.
C14_NoQualifyingReadingRaises ==
    (/\ dataset \in {"temperature", "humidity"}
     /\ calls = 1
     /\ \A k \in DOMAIN resp.readings : resp.readings[k].value <= 0)
    => /\ raised = "ZeroDivisionError"
       /\ raised = DegenerateError(dataset)
       /\ AverageOf(dataset, obj) = AverageOf(dataset, Constructed(dataset))

\* C14 witness: a humidity document with two readings, none above 0, was processed.
C14_Witness ==
    /\ dataset = "humidity"
    /\ calls = 1
    /\ Len(resp.readings) = 2
    /\ resp.readings[1].value = 0
    /\ resp.readings[2].value < 0
    /\ raised = "ZeroDivisionError"

\* C15: for readings with at least one value above 0 the stored average is the sum of
\* the values above 0 divided by their number, rounded to two decimals (the nearest
\* hundredth, a tie going to the even one); values <= 0 count in neither.
C15_MeanOfPositiveReadings ==
    (/\ dataset \in {"temperature", "humidity"}
     /\ calls = 1
     /\ \E k \in DOMAIN resp.readings : resp.readings[k].value > 0)
    => /\ raised = "none"
       /\ "num" \in DOMAIN AverageOf(dataset, obj)
       /\ LET s == SumValues(PositiveReadings(resp.readings))
              n == Len(PositiveReadings(resp.readings))
              h == AverageOf(dataset, obj).num
          IN  /\ 2 * (100 * s - h * n) <= n
              /\ 2 * (h * n - 100 * s) <= n
              /\ (2 * (100 * s - h * n) = n \/ 2 * (h * n - 100 * s) = n) => h % 2 = 0

\* C15 witness: readings 1 and 2 beside a reading <= 0 gave the average 1.50.
C15_Witness ==
    /\ dataset = "temperature"
    /\ calls = 1
    /\ Len(resp.readings) = 3
    /\ \E k \in DOMAIN resp.readings : resp.readings[k].value <= 0
    /\ obj.temp_avg = PyNum(150)

\* C16 (as claimed): the current condition of forecast2hr occurs as often as any
\* condition of the document, and among the conditions that tie for the most
\* occurrences it is the one met first in upstream area order.
C16_TieGoesToFirstListed ==
    (dataset = "forecast2hr" /\ calls = 1 /\ raised = "none")
    => LET lst == [k \in DOMAIN resp.forecasts |-> resp.forecasts[k].forecast]
       IN  /\ \A c \in PySet(lst) : ListCount(lst, c) <= ListCount(lst, obj.current_condition)
           /\ \A c \in PySet(lst) :
                 ListCount(lst, c) = ListCount(lst, obj.current_condition)
                 => ListIndex(lst, obj.current_condition) <= ListIndex(lst, c)

\* C17: every label of forecast24hr reads morning exactly for a period starting at
\* hour 6, afternoon exactly for hour 12 and evening for every other hour, and its
\* day part is "Today " exactly when the period starts on the current date, else
\* "Tomorrow ".
C17_PeriodLabels ==
    (dataset = "forecast24hr" /\ calls = 1 /\ raised = "none")
    => /\ DOMAIN obj.region_forecast = Regions
       /\ \A region \in Regions :
             /\ Len(obj.region_forecast[region]) = Len(resp.periods)
             /\ \A k \in DOMAIN resp.periods :
                   LET label == obj.region_forecast[region][k]
                       start == resp.periods[k].time.start
                   IN  /\ label.time_of_day = "morning" <=> start.hour = 6
                       /\ label.time_of_day = "afternoon" <=> start.hour = 12
                       /\ label.time_of_day = "evening" <=> start.hour \notin {6, 12}
                       /\ label.day = "Today " <=> start.date = today
                       /\ label.day = "Tomorrow " <=> start.date # today

\* C17 witness: a period starting at hour 13 of another date is labelled
\* "Tomorrow evening", beside a period of today at hour 6.
C17_Witness ==
    /\ dataset = "forecast24hr"
    /\ calls = 1
    /\ Len(resp.periods) = 2
    /\ resp.periods[1].time.start = [date |-> today, hour |-> 6]
    /\ resp.periods[2].time.start.hour = 13
    /\ resp.periods[2].time.start.date # today
    /\ obj.region_forecast["west"][1].time_of_day = "morning"
    /\ obj.region_forecast["west"][2].day = "Tomorrow "
    /\ obj.region_forecast["west"][2].time_of_day = "evening"

\* C18: after the rain dataset is processed, whatever the upstream reading list
\* (empty, partial, duplicated stations, unknown stations), the station map has one
\* entry per known rain sensor and no other key; a known station the list carries has
\* its upstream value (of its first reading), a station it does not carry has 0.
C18_RainOneEntryPerKnownStation ==
    (dataset = "rain" /\ calls = 1)
    => /\ raised = "none"
       /\ DOMAIN obj.data = KnownRainIds
       /\ \A sid \in KnownRainIds :
             IF \E k \in DOMAIN resp.readings : resp.readings[k].station_id = sid
             THEN \E k \in DOMAIN resp.readings :
                     /\ resp.readings[k].station_id = sid
                     /\ \A m \in 1..(k - 1) : resp.readings[m].station_id # sid
                     /\ obj.data[sid].value = resp.readings[k].value
             ELSE obj.data[sid].value = 0
       /\ resp.readings = <<>> => obj.data = Rain_process_secondary_data(Rain_init).data

\* C18 witness: the list carried station S77 twice, an unknown station, and not S109.
C18_Witness ==
    /\ dataset = "rain"
    /\ calls = 1
    /\ Len(resp.readings) = 3
    /\ resp.readings[1] = [station_id |-> "S999", value |-> 1]
    /\ resp.readings[2] = [station_id |-> "S77", value |-> 2]
    /\ resp.readings[3] = [station_id |-> "S77", value |-> 1]
    /\ obj.data["S77"].value = 2
    /\ obj.data["S109"].value = 0

\* C19 (as claimed): the area map, the region map and the station map hold no key
\* outside the fixed enumeration of areas, regions and rain sensors: an upstream entry
\* with an unknown identifier is dropped.
C19_UnknownIdsDropped ==
    (calls = 1 /\ raised = "none")
    => /\ dataset = "forecast2hr" => DOMAIN obj.area_forecast \subseteq AREAS
       /\ dataset = "forecast24hr" => DOMAIN obj.region_forecast \subseteq Regions
       /\ dataset = "rain" => DOMAIN obj.data \subseteq KnownRainIds

(***************************************************************************)
(* The rain map cameras of camera.py: NeaRainCamera ("still") and          *)
(* NeaAnimatedRainCamera ("animated"), and the NeaRainCamera of the older   *)
(* camera.py ("legacy")                                                    *)
(***************************************************************************)

\* Minutes of clock the model follows a camera for.
MaxMinutes == 2

\* Most get_image invocations of one async_camera_image call: each retry is a nested
\* `await get_image(...)`, and the interpreter's recursion limit (1000 frames, reached
\* after some 990 nested calls) ends the nesting with RecursionError. The model's
\* limit is this many nested invocations.
MaxRequests == 2

\* Most async_camera_image calls the model makes.
MaxImageCalls == 2

\* Most frames the slideshow page lists after its first image.
MaxSlides == 2

\* if len(self._gifs) > 24 ... self._gifs[-24:]
FrameCap == 24

\* None, the bytes of the tile of a bucket, and an encoded animation of frames.
PyNone == [none |-> TRUE]
TileBytes(id) == [tile |-> id]
GifBytes(frames) == [gif |-> frames]

\* The clock values the model starts at: 09:58 and 23:58 of day 1, two minutes before
\* a change of hour and a change of day.
ClockStarts == {9 * 60 + 58, 23 * 60 + 58}

\* int(datetime.strftime(now, "%Y%m%d%H%M")) at minute t: the digits DDHHMM of the
\* tile id; the leading YYYYMM of the first month is left out.
QueryTime(t) == (1 + t \div 1440) * 10000 + ((t % 1440) \div 60) * 100 + (t % 60)

\* math.floor(_current_query_time / 5) * 5
ImageTime(q) == (q \div 5) * 5

\* Mutant: a step of 5 at every bucket.
SkipMinutes_Five(id) == 5

\* _skip_minutes: 45 when the id ends in "00", else 5.
SkipMinutes(id) == IF id % 100 = 0 THEN 45 ELSE 5

\* The tile server holds a file only under the id of a real 5-minute bucket.
ValidTile(id) ==
    /\ id \div 10000 >= 1
    /\ (id % 10000) \div 100 <= 23
    /\ id % 100 \in {0, 5, 10, 15, 20, 25, 30, 35, 40, 45, 50, 55}

\* What a request can end with: a status, httpx.TimeoutException, or another
\* httpx.RequestError raised before there is a response.
Responses == {"200", "404", "500", "TimeoutException", "ConnectError"}

\* NeaRainCamera.__init__
NeaRainCamera_init ==
    [last_query_time |-> 0, last_image_time |-> 0, last_image |-> PyNone, last_url |-> 0]

\* NeaAnimatedRainCamera.__init__
NeaAnimatedRainCamera_init ==
    [last_query_time |-> 0, last_gif_time |-> 0, last_gif |-> PyNone, gifs |-> <<>>,
     last_url |-> 0]

\* NeaRainCamera.__init__ of the older camera.py
Legacy_NeaRainCamera_init == [last_url |-> 0, last_image |-> PyNone]

\* coordinator.data.rain_map_url at minute t: the address of the newest rain map the
\* coordinator's data lists, which is the tile of the current bucket or still that of
\* the bucket before. An address is modelled by the tile id it ends in.
RainMapUrls(t) == {ImageTime(QueryTime(t)), ImageTime(QueryTime(t - 5))}

\* No call yet.
NoCall ==
    [pc |-> "idle", entry |-> <<>>, bucket |-> 0, depth |-> 0, current |-> 0,
     requests |-> <<>>, answers |-> <<>>, slides |-> 0, loaded |-> 0, got |-> 0,
     ret |-> [kind |-> "none"], calls |-> 0]

\* A call begins: nothing requested, nothing fetched, nothing returned yet.
NewCall(w) == [NoCall EXCEPT !.calls = w.calls + 1]

\* A call begins on the camera object c and computes the bucket b (the older camera:
\* reads the address b).
CallFor(c, w, b) == [NewCall(w) EXCEPT !.entry = c, !.bucket = b]

\* return value: the call ends.
Returned(w, value) == [w EXCEPT !.pc = "idle", !.ret = [kind |-> "return", value |-> value]]

\* An exception no except clause of get_image catches: it leaves async_camera_image.
Raised(w, error) == [w EXCEPT !.pc = "idle", !.ret = [kind |-> "raise", error |-> error]]

\* The pending request of the call was answered with r.
Answered(w, r) == [w EXCEPT !.answers = Append(@, r)]

\* return await get_image(...): one more nested call, which the recursion limit
\* refuses at the deepest level; no except clause of get_image catches RecursionError.
Nested(w, inner) == IF w.depth < MaxRequests THEN inner ELSE Raised(w, "RecursionError")

\* get_image of the still camera up to its await: the tile of bucket b is requested.
Still_get_image(w, b) ==
    [w EXCEPT !.pc = "tile", !.current = b, !.depth = @ + 1,
              !.requests = Append(@, [kind |-> "tile", at |-> b])]

\* Time passes while no call is in progress; what the last call did, other than to
\* the camera object, is gone with it.
Advance ==
    /\ walk.pc = "idle"
    /\ \E start \in ClockStarts :
          /\ clock \in start..(start + MaxMinutes)
          /\ clock' \in (clock + 1)..(start + MaxMinutes)
    /\ walk' = [NoCall EXCEPT !.calls = walk.calls]
    /\ UNCHANGED <<camera, cam, cycleVars, extractVars>>

\* Mutant: only the minute of the last query is tested, not the bucket.
Still_async_camera_image_MinuteOnly ==
    /\ camera = "still"
    /\ walk.pc = "idle"
    /\ walk.calls < MaxImageCalls
    /\ LET _current_query_time == QueryTime(clock)
           _current_image_time == ImageTime(_current_query_time)
           w == CallFor(cam, walk, _current_image_time)
       IN  /\ cam' = [cam EXCEPT !.last_query_time = _current_query_time]
           /\ IF _current_query_time # cam.last_query_time
              THEN walk' = Still_get_image(w, _current_image_time)
              ELSE walk' = Returned(w, cam.last_image)
    /\ UNCHANGED <<camera, clock, cycleVars, extractVars>>

\* NeaRainCamera.async_camera_image up to its first await or its return.
Still_async_camera_image ==
    /\ camera = "still"
    /\ walk.pc = "idle"
    /\ walk.calls < MaxImageCalls
    /\ LET _current_query_time == QueryTime(clock)
           _current_image_time == ImageTime(_current_query_time)
           w == CallFor(cam, walk, _current_image_time)
       IN  /\ cam' = [cam EXCEPT !.last_query_time = _current_query_time]
           /\ IF /\ _current_query_time # cam.last_query_time
                 /\ _current_image_time # cam.last_image_time
              THEN walk' = Still_get_image(w, _current_image_time)
              ELSE walk' = Returned(w, cam.last_image)
    /\ UNCHANGED <<camera, clock, cycleVars, extractVars>>

\* The request of the still camera's get_image ends with r.
Still_response(r) ==
    /\ camera = "still"
    /\ walk.pc = "tile"
    /\ r = "200" => ValidTile(walk.current)
    /\ LET previous == walk.current - SkipMinutes(walk.current)
           w == Answered(walk, r)
       IN  CASE r = "200" ->
                  /\ cam' = [cam EXCEPT !.last_image = TileBytes(w.current),
                                        !.last_image_time = w.current,
                                        !.last_url = w.current]
                  /\ walk' = Returned([w EXCEPT !.got = w.current], TileBytes(w.current))
             [] r = "404" ->
                  /\ UNCHANGED cam
                  /\ IF previous = cam.last_image_time
                     THEN walk' = Returned(w, cam.last_image)
                     ELSE walk' = Nested(w, Still_get_image(w, previous))
             [] r = "ConnectError" ->
                  /\ UNCHANGED cam
                  /\ walk' = Raised(w, "UnboundLocalError")
             [] OTHER ->
                  /\ UNCHANGED cam
                  /\ walk' = Returned(w, cam.last_image)
    /\ UNCHANGED <<camera, clock, cycleVars, extractVars>>

\* The last n elements of a list: lst[-n:]
LastN(lst, n) ==
    IF Len(lst) <= n THEN lst ELSE SubSeq(lst, Len(lst) - n + 1, Len(lst))

\* The frame decoded from the tile of bucket b, and from image k of the slideshow.
TileFrame(b) == b
SlideFrame(k) == 0 - k

\* get_image of the animated camera, entered for bucket b, up to its first await:
\* with frames in the buffer and no bucket resolved yet the subtraction raises
\* TypeError; with an empty buffer, or more than 5 since the last resolved bucket, the
\* slideshow page is requested; otherwise the tile of b.
Animated_get_image(c, w, b) ==
    IF c.gifs # <<>> /\ c.last_gif_time = 0
    THEN Raised([w EXCEPT !.current = b, !.depth = @ + 1], "TypeError")
    ELSE IF c.gifs = <<>> \/ b - c.last_gif_time > 5
         THEN [w EXCEPT !.pc = "page", !.current = b, !.depth = @ + 1,
                        !.slides = 0, !.loaded = 0,
                        !.requests = Append(@, [kind |-> "page", at |-> b])]
         ELSE [w EXCEPT !.pc = "tile", !.current = b, !.depth = @ + 1,
                        !.requests = Append(@, [kind |-> "tile", at |-> b])]

\* The buffer when get_image builds the animation: cut to the newest FrameCap frames.
Trimmed(gifs) == IF Len(gifs) > FrameCap THEN LastN(gifs, FrameCap) ELSE gifs

\* The animation after that: encoded anew only from exactly FrameCap frames.
Encoded(c, gifs) == IF Len(gifs) = FrameCap THEN GifBytes(gifs) ELSE c.last_gif

\* The end of a get_image whose requests all succeeded, the buffer being gifs: the
\* bucket is recorded, the animation is built and returned.
Animated_finish(c, w, gifs) ==
    [cam  |-> [c EXCEPT !.last_gif_time = w.current,
                        !.last_url = w.current,
                        !.gifs = Trimmed(gifs),
                        !.last_gif = Encoded(c, Trimmed(gifs))],
     walk |-> Returned(w, Encoded(c, Trimmed(gifs)))]

\* NeaAnimatedRainCamera.async_camera_image up to its first await or its return.
Animated_async_camera_image ==
    /\ camera = "animated"
    /\ walk.pc = "idle"
    /\ walk.calls < MaxImageCalls
    /\ LET _current_query_time == QueryTime(clock)
           _current_gif_time == ImageTime(_current_query_time)
           w == CallFor(cam, walk, _current_gif_time)
       IN  /\ cam' = [cam EXCEPT !.last_query_time = _current_query_time]
           /\ IF /\ _current_query_time # cam.last_query_time
                 /\ _current_gif_time # cam.last_gif_time
              THEN walk' = Animated_get_image(cam, w, _current_gif_time)
              ELSE walk' = Returned(w, cam.last_gif)
    /\ UNCHANGED <<camera, clock, cycleVars, extractVars>>

\* A request of the animated camera's get_image ends with r: of the slideshow page
\* (which lists n images after its first), of an image of the slideshow, or of a tile.
Animated_response(r) ==
    /\ camera = "animated"
    /\ walk.pc \in {"page", "frame", "tile"}
    /\ (r = "200" /\ walk.pc = "tile") => ValidTile(walk.current)
    /\ LET previous == walk.current - SkipMinutes(walk.current)
           w == Answered(walk, r)
       IN  CASE r = "200" /\ walk.pc = "page" ->
                  \E n \in 0..MaxSlides :
                     IF n = 0
                     THEN /\ cam' = Animated_finish(cam, w, cam.gifs).cam
                          /\ walk' = Animated_finish(cam, w, cam.gifs).walk
                     ELSE /\ UNCHANGED cam
                          /\ walk' = [w EXCEPT
                                         !.pc = "frame", !.slides = n,
                                         !.requests = Append(@, [kind |-> "frame",
                                                                 at   |-> w.current])]
             [] r = "200" /\ walk.pc = "frame" ->
                  LET gifs == Append(cam.gifs, SlideFrame(w.loaded + 1))
                      v    == [w EXCEPT !.loaded = @ + 1]
                  IN  IF v.loaded = v.slides
                      THEN /\ cam' = Animated_finish(cam, v, gifs).cam
                           /\ walk' = Animated_finish(cam, v, gifs).walk
                      ELSE /\ cam' = [cam EXCEPT !.gifs = gifs]
                           /\ walk' = [v EXCEPT
                                          !.requests = Append(@, [kind |-> "frame",
                                                                  at   |-> v.current])]
             [] r = "200" /\ walk.pc = "tile" ->
                  LET gifs == Append(cam.gifs, TileFrame(w.current))
                      v    == [w EXCEPT !.got = w.current]
                  IN  /\ cam' = Animated_finish(cam, v, gifs).cam
                      /\ walk' = Animated_finish(cam, v, gifs).walk
             [] r = "404" ->
                  /\ UNCHANGED cam
                  /\ IF previous = cam.last_gif_time
                     THEN walk' = Returned(w, cam.last_gif)
                     ELSE walk' = Nested(w, Animated_get_image(cam, w, previous))
             [] r = "ConnectError" /\ walk.pc # "frame" ->
                  /\ UNCHANGED cam
                  /\ walk' = Raised(w, "UnboundLocalError")
             [] OTHER ->
                  /\ UNCHANGED cam
                  /\ walk' = Returned(w, cam.last_gif)
    /\ UNCHANGED <<camera, clock, cycleVars, extractVars>>

\* The animated camera after an earlier call at minute t loaded a slideshow of k
\* images (the first one skipped, all others fetched) into its empty buffer.
AfterSlideshow(k, t) ==
    Animated_finish([NeaAnimatedRainCamera_init EXCEPT !.last_query_time = QueryTime(t)],
                    [NoCall EXCEPT !.current = ImageTime(QueryTime(t))],
                    [i \in 1..k |-> SlideFrame(i)]).cam

\* The sizes of the slideshow such an earlier call loaded: one frame short of the cap,
\* and the cap.
LoadedBefore == {FrameCap - 1, FrameCap}

\* A camera of one of the three classes at the start of the clock: as constructed, or,
\* the animated one, with the slideshow loaded five minutes before.
CameraInit ==
    /\ UpdaterIdle
    /\ ExtractUnused
    /\ camera \in {"still", "animated", "legacy"}
    /\ clock \in ClockStarts
    /\ cam \in CASE camera = "still"    -> {NeaRainCamera_init}
                [] camera = "animated" -> {NeaAnimatedRainCamera_init}
                                          \cup {AfterSlideshow(k, clock - 5) : k \in LoadedBefore}
                [] camera = "legacy"   -> {Legacy_NeaRainCamera_init}
    /\ walk = NoCall

\* async_camera_image of the older camera.py up to its await or its return.
Legacy_async_camera_image ==
    /\ camera = "legacy"
    /\ walk.pc = "idle"
    /\ walk.calls < MaxImageCalls
    /\ \E url \in RainMapUrls(clock) :
          IF url = cam.last_url
          THEN walk' = Returned(CallFor(cam, walk, url), cam.last_image)
          ELSE walk' = [CallFor(cam, walk, url) EXCEPT
                           !.pc = "tile", !.current = url,
                           !.requests = <<[kind |-> "tile", at |-> url]>>]
    /\ UNCHANGED <<camera, clock, cam, cycleVars, extractVars>>

\* The request of the older camera ends with r: the image is cached on success, and
\* every failure is caught and answered with the cached image.
Legacy_response(r) ==
    /\ camera = "legacy"
    /\ walk.pc = "tile"
    /\ LET w == Answered(walk, r)
       IN  IF r = "200"
           THEN /\ cam' = [cam EXCEPT !.last_image = TileBytes(w.current),
                                      !.last_url = w.current]
                /\ walk' = Returned(w, TileBytes(w.current))
           ELSE /\ UNCHANGED cam
                /\ walk' = Returned(w, cam.last_image)
    /\ UNCHANGED <<camera, clock, cycleVars, extractVars>>

CameraNext ==
    \/ Advance
    \/ Legacy_async_camera_image
    \/ \E r \in Responses : Legacy_response(r)
    \/ Still_async_camera_image
    \/ \E r \in Responses : Still_response(r)
    \/ Animated_async_camera_image
    \/ \E r \in Responses : Animated_response(r)

SpecCamera == CameraInit /\ [][CameraNext]_vars

(***************************************************************************)
(* Properties of the rain map cameras                                      *)
(***************************************************************************)

\* The requests of a call follow the fallback walk: a request is followed by one for
\* the same bucket only when it is an image of the slideshow being loaded, and
\* otherwise by one for the bucket 5 below (45 below an id that ends in 00).
WalkSteps(w) ==
    \A i \in 1..(Len(w.requests) - 1) :
        LET at == w.requests[i].at
            nxt == w.requests[i + 1]
        IN  \/ nxt.at = at /\ nxt.kind = "frame"
            \/ /\ nxt.kind # "frame"
               /\ nxt.at < at
               /\ nxt.at = at - (IF at % 100 = 0 THEN 45 ELSE 5)

\* A call that fetched a tile ended with that request: the tile is its last request,
\* the call is over and the bucket of the tile is the last resolved bucket.
StopsAtFetchedTile(w) ==
    /\ w.pc = "idle"
    /\ w.requests[Len(w.requests)] = [kind |-> "tile", at |-> w.got]
    /\ \A i \in 1..(Len(w.requests) - 1) : w.requests[i].at > w.got
    /\ IF camera = "still" THEN cam.last_image_time = w.got ELSE cam.last_gif_time = w.got

\* C20 (as claimed): the fallback walk requests tiles in strictly decreasing bucket
\* order, 5 back after a 404 (45 on the id of a whole hour), stops at the first tile
\* fetched, records its bucket as the last resolved one, issues no further request,
\* and returns the bytes of that tile.
C20_WalkReturnsFirstTile ==
    /\ WalkSteps(walk)
    /\ walk.got # 0
       => /\ StopsAtFetchedTile(walk)
          /\ walk.ret = [kind |-> "return", value |-> TileBytes(walk.got)]

\* C20 (amended): the same walk, and what is returned depends on the camera: the still
\* camera returns and caches the bytes of the tile; the animated camera appends the
\* tile as the newest frame and returns its animation, which is None until the buffer
\* holds FrameCap frames.
C20_WalkStopsAtFirstTile ==
    /\ WalkSteps(walk)
    /\ walk.got # 0
       => /\ StopsAtFetchedTile(walk)
          /\ walk.ret.kind = "return"
          /\ IF camera = "still"
             THEN /\ walk.ret.value = TileBytes(walk.got)
                  /\ cam.last_image = TileBytes(walk.got)
             ELSE /\ cam.gifs[Len(cam.gifs)] = TileFrame(walk.got)
                  /\ walk.ret.value = cam.last_gif
                  /\ walk.ret.value =
                        IF Len(cam.gifs) = FrameCap THEN GifBytes(cam.gifs) ELSE PyNone

\* C20 witness: at 10:00 the still camera was answered 404 for bucket 1000, then
\* fetched the tile of 0955, returned it and recorded that bucket.
C20_Witness ==
    /\ camera = "still"
    /\ walk.requests = << [kind |-> "tile", at |-> QueryTime(10 * 60)],
                          [kind |-> "tile", at |-> QueryTime(9 * 60 + 55)] >>
    /\ walk.got = QueryTime(9 * 60 + 55)
    /\ walk.ret = [kind |-> "return", value |-> TileBytes(walk.got)]
    /\ cam.last_image_time = walk.got

\* The bucket the camera resolved last (0 while there is none).
LastResolved ==
    CASE camera = "still"    -> cam.last_image_time
      [] camera = "animated" -> cam.last_gif_time
      [] camera = "legacy"   -> cam.last_url

\* The bytes the camera has cached.
CachedBytes == IF camera = "animated" THEN cam.last_gif ELSE cam.last_image

\* Every answer the call got was a 404 or a success.
OnlyNotFound(w) == \A i \in DOMAIN w.answers : w.answers[i] \in {"404", "200"}

\* C21: the fallback walk (of the still and of the animated camera) never requests a
\* bucket earlier than the one resolved before, and whatever the pattern of 404
\* answers it ends after finitely many requests with the tile found or with the cached
\* bytes returned.
C21_WalkTerminates ==
    camera \in {"still", "animated"}
    => /\ \A i \in DOMAIN walk.requests : walk.requests[i].at >= LastResolved
       /\ (walk.pc = "idle" /\ walk.requests # <<>> /\ OnlyNotFound(walk))
          => /\ walk.ret.kind = "return"
             /\ walk.ret.value = CachedBytes

\* C22: a request that ends with a timeout, a connection or transport error or an HTTP
\* error other than 404 ends the call at once: the call returns the cached bytes, the
\* last resolved bucket and the cached bytes stay as they were, and no exception
\* reaches the caller.
C22_ErrorsReturnCached ==
    [][ (/\ walk.pc \in {"tile", "page", "frame"}
         /\ Len(walk'.answers) = Len(walk.answers) + 1
         /\ walk'.answers[Len(walk'.answers)] \in {"500", "TimeoutException", "ConnectError"})
        => /\ walk'.pc = "idle"
           /\ walk'.requests = walk.requests
           /\ walk'.ret = [kind |-> "return", value |-> CachedBytes]
           /\ CachedBytes' = CachedBytes
           /\ LastResolved' = LastResolved ]_vars

\* C23: a call whose bucket is the last resolved bucket returns the cached bytes and
\* makes no network call; so once the tile of the current bucket is resolved, no
\* further call in that bucket makes one.
C23_NoRefetchWithinBucket ==
    [][ (walk'.calls = walk.calls + 1 /\ walk'.bucket = LastResolved)
        => /\ walk'.requests = <<>>
           /\ walk'.pc = "idle"
           /\ walk'.ret = [kind |-> "return", value |-> CachedBytes]
           /\ CachedBytes' = CachedBytes
           /\ LastResolved' = LastResolved ]_vars

\* C23 witness: a second call in the bucket whose tile the first call fetched was
\* answered from the cache without a request.
C23_Witness ==
    /\ walk.calls = 2
    /\ walk.pc = "idle"
    /\ walk.bucket = LastResolved
    /\ walk.requests = <<>>
    /\ CachedBytes = TileBytes(walk.bucket)
    /\ walk.ret = [kind |-> "return", value |-> CachedBytes]

\* lst ends with the elements of tail, in order.
IsSuffix(tail, lst) == Len(tail) <= Len(lst) /\ tail = LastN(lst, Len(tail))

\* C24: whenever a call of the animated camera has returned, however its requests
\* ended, the buffer holds at most FrameCap frames; the buffer only ever gains frames
\* at its newest end and loses them at its oldest; and the animation is encoded anew
\* only from a buffer of exactly FrameCap frames.
C24_BufferBounded ==
    [][ camera = "animated"
        => /\ walk'.pc = "idle" => Len(cam'.gifs) <= FrameCap
           /\ \/ cam'.gifs = cam.gifs
              \/ \E frame \in {TileFrame(walk.current)} \cup {SlideFrame(k) : k \in 1..(MaxSlides + 1)} :
                    IsSuffix(cam'.gifs, Append(cam.gifs, frame))
           /\ cam'.last_gif # cam.last_gif
              => Len(cam'.gifs) = FrameCap /\ cam'.last_gif = GifBytes(cam'.gifs) ]_vars

\* C28: every tile id the resolver requests, first or later in the walk, is the
\* timestamp of a 5-minute bucket: a day, an hour of 00..23 and a minute of 00, 05, ...,
\* 55, also when the walk steps back across midnight.
C28_RequestedIdsAreBuckets ==
    \A i \in DOMAIN walk.requests :
        walk.requests[i].kind = "tile" => ValidTile(walk.requests[i].at)

\* The call ended without resolving anything: its last request failed.
FailedFetch(w) ==
    /\ w.pc = "idle"
    /\ w.requests # <<>>
    /\ w.answers[Len(w.answers)] # "200"

\* C29: a camera starts at most one fetch per clock minute: a call in the minute of
\* the last query, however that one ended, returns the cached image and requests
\* nothing; and a fetch that failed has changed nothing of the camera but the minute
\* of the last query.
C29_OneFetchPerMinute ==
    [][ (camera = "still" \/ camera = "animated")
        => /\ (walk'.calls = walk.calls + 1 /\ QueryTime(clock) = cam.last_query_time)
              => /\ walk'.requests = <<>>
                 /\ walk'.ret = [kind |-> "return", value |-> CachedBytes]
           /\ FailedFetch(walk')
              => cam' = [walk'.entry EXCEPT !.last_query_time = cam'.last_query_time]
      ]_vars

\* The minute of the clock a tile id stands for.
MinuteOf(id) == ((id \div 10000) - 1) * 1440 + ((id % 10000) \div 100) * 60 + (id % 100)

\* C30: the animated camera, called with frames in its buffer for the bucket that
\* follows the last resolved one by five minutes (also from HH:55 to the next hour),
\* requests that one tile and appends it as one frame; it loads the slideshow only
\* with an empty buffer or with more than one bucket missed.
C30_SuccessorFetchesOneTile ==
    (camera = "animated" /\ walk.requests # <<>>)
    => LET c == walk.entry
           successor == /\ c.gifs # <<>>
                        /\ c.last_gif_time # 0
                        /\ MinuteOf(walk.bucket) - MinuteOf(c.last_gif_time) = 5
       IN  /\ successor => walk.requests[1] = [kind |-> "tile", at |-> walk.bucket]
           /\ (successor /\ walk.got = walk.bucket)
              => /\ Len(walk.requests) = 1
                 /\ IsSuffix(cam.gifs, Append(c.gifs, TileFrame(walk.bucket)))
           /\ walk.requests[1].kind = "page"
              => \/ c.gifs = <<>>
                 \/ c.last_gif_time = 0
                 \/ MinuteOf(walk.bucket) - MinuteOf(c.last_gif_time) > 5

(***************************************************************************)
(* Properties of the dataset objects, continued                            *)
(***************************************************************************)

C25_OneEntryPerDayFirstKeyword ==
    (dataset = "forecast4day" /\ calls = 1)
    => /\ Len(obj.forecast) = Len(resp.forecasts)
       /\ \A k \in 1..Len(resp.forecasts) :
             /\ obj.forecast[k].datetime = resp.forecasts[k].timestamp
             /\ \E c \in DOMAIN FORECAST_MAP_CONDITION :
                   /\ Contains(Lower(resp.forecasts[k].forecast),
                               FORECAST_MAP_CONDITION[c].keyword)
                   /\ \A b \in 1..(c - 1) :
                         ~Contains(Lower(resp.forecasts[k].forecast),
                                   FORECAST_MAP_CONDITION[b].keyword)
                   /\ obj.forecast[k].condition = FORECAST_MAP_CONDITION[c].condition

\* C27: whenever the wind aggregate was computed (at least one speed reading and one
\* direction reading share a station id), its speed is not negative and its direction
\* is at least 0 and below 360.
C27_BearingBelow360 ==
    (dataset = "wind" /\ calls = 1 /\ raised = "none")
    => /\ obj.wind_status.agg_wind_speed.min >= 0
       /\ obj.wind_status.agg_wind_direction.min >= 0
       /\ \/ obj.wind_status.agg_wind_direction.max < 360
          \/ /\ obj.wind_status.agg_wind_direction.max = 360
             /\ obj.wind_status.agg_wind_direction.open
====
